---- MODULE Spec2Model ----
(***************************************************************************)
(* The ZX Spectrum screen of rustzx (src/zx/screen.rs): the address codec, *)
(* the attribute / palette model and the ZXScreen renderer.                *)
(*                                                                         *)
(* The three arrays of ZXScreen (attributes, bitmap, buffer) are held      *)
(* restricted to an observation window: `buffer` to the pixels of Window,  *)
(* `bitmap` and `attributes` to the cells whose blocks cover a pixel of    *)
(* Window.  Every statement of the code reads and writes single array      *)
(* elements at computed indices; the model computes the same indices, with *)
(* the geometry of the source (320x240 frame, 192x32 blocks), and keeps    *)
(* the elements that lie in the window.  A pixel is one RGBA quadruple:    *)
(* buffer bytes 4p .. 4p+3 of the source are buffer[p] here.               *)
(***************************************************************************)
EXTENDS Integers, Sequences, FiniteSets, TLC

VARIABLES attributes, bitmap, buffer, machine, flash, frame_counter,
          panic, fn, arg, ret

vars == <<attributes, bitmap, buffer, machine, flash, frame_counter,
          panic, fn, arg, ret>>

screen == <<attributes, bitmap, buffer, machine, flash, frame_counter, panic>>

codec == <<fn, arg, ret>>

----------------------------------------------------------------------------
(* Constants of the source *)

CANVAS_WIDTH == 256

CANVAS_HEIGHT == 192

CANVAS_X == 32

CANVAS_Y == 24

SCREEN_WIDTH == CANVAS_WIDTH + 32 * 2

SCREEN_HEIGHT == CANVAS_HEIGHT + 24 * 2

PIXEL_COUNT_canvas == CANVAS_HEIGHT * CANVAS_WIDTH

PIXEL_COUNT == SCREEN_HEIGHT * SCREEN_WIDTH

ATTR_COLS == CANVAS_WIDTH \div 8

ATTR_ROWS == CANVAS_HEIGHT \div 8

BYTES_PER_PIXEL == 4

----------------------------------------------------------------------------
(* Rust's integer operators on u8 / u16 *)

RECURSIVE BitAnd(_, _)
\* a & b
BitAnd(a, b) ==
    IF a = 0 \/ b = 0 THEN 0
    ELSE (a % 2) * (b % 2) + 2 * BitAnd(a \div 2, b \div 2)

RECURSIVE BitOr(_, _)
\* a | b
BitOr(a, b) ==
    IF a = 0 THEN b
    ELSE IF b = 0 THEN a
    ELSE (IF a % 2 = 1 \/ b % 2 = 1 THEN 1 ELSE 0) + 2 * BitOr(a \div 2, b \div 2)

\* x << n on u16: the bits shifted out are dropped
Shl16(x, n) == (x * 2^n) % 65536

\* x << n on u8
Shl8(x, n) == (x * 2^n) % 256

\* x >> n
Shr(x, n) == x \div 2^n

\* utils::split_word: the (high, low) bytes of a 16-bit word
split_word(addr) == <<addr \div 256, addr % 256>>

----------------------------------------------------------------------------
(* Address codec *)

\* 0 1 0 Y7 Y6 Y2 Y1 Y0 | Y5 Y4 Y3 X4 X3 X2 X1 X0
get_bitmap_line_addr(line) ==
    BitOr(BitOr(BitOr(16384, BitAnd(Shl16(line, 5), 6144)),
                BitAnd(Shl16(line, 8), 1792)),
          BitAnd(Shl16(line, 2), 224))

\* get_bitmap_line with the Y5 Y4 Y3 field shifted by 3 instead of 2
get_bitmap_line_shift3(addr) ==
    LET h == split_word(addr)[1]
        l == split_word(addr)[2]
    IN  BitOr(BitOr(BitAnd(h, 7), BitAnd(Shr(l, 3), 56)), BitAnd(Shl8(h, 3), 192))

get_bitmap_line(addr) ==
    LET h == split_word(addr)[1]
        l == split_word(addr)[2]
    IN  BitOr(BitOr(BitAnd(h, 7), BitAnd(Shr(l, 2), 56)), BitAnd(Shl8(h, 3), 192))

\* get_bitmap_col keeping 6 bits of the low byte instead of 5
get_bitmap_col_mask3F(addr) ==
    LET l == split_word(addr)[2]
    IN  BitAnd(l, 63)

get_bitmap_col(addr) ==
    LET l == split_word(addr)[2]
    IN  BitAnd(l, 31)

\* the attribute row with the offset divided by half a row's length
get_attr_row_div16(addr) == (addr - 22528) \div 16

get_attr_row(addr) == (addr - 22528) \div ATTR_COLS

\* the attribute column taken modulo half a row's length
get_attr_col_mod16(addr) == (addr - 22528) % 16

get_attr_col(addr) == (addr - 22528) % ATTR_COLS

----------------------------------------------------------------------------
(* Attribute / palette model *)

\* ZXColor::from_bits; "panic" is the failed assert!(bits <= 7)
ZXColor_from_bits(bits) ==
    IF ~(bits <= 7) THEN "panic"
    ELSE CASE bits = 0 -> "Black"
           [] bits = 1 -> "Blue"
           [] bits = 2 -> "Red"
           [] bits = 3 -> "Purple"
           [] bits = 4 -> "Green"
           [] bits = 5 -> "Cyan"
           [] bits = 6 -> "Yellow"
           [] bits = 7 -> "White"

\* from_byte without the mask on the shifted paper bits
ZXAttribute_from_byte_no_mask(data) ==
    [ink    |-> ZXColor_from_bits(BitAnd(data, 7)),
     paper  |-> ZXColor_from_bits(Shr(data, 3)),
     flash  |-> BitAnd(data, 128) # 0,
     bright |-> BitAnd(data, 64) # 0]

\* ZXAttribute::from_byte
ZXAttribute_from_byte(data) ==
    [ink    |-> ZXColor_from_bits(BitAnd(data, 7)),
     paper  |-> ZXColor_from_bits(BitAnd(Shr(data, 3), 7)),
     flash  |-> BitAnd(data, 128) # 0,
     bright |-> BitAnd(data, 64) # 0]

\* get_rgba taking the pixel state alone to choose between ink and paper
get_rgba_no_flash(attr, state, flash_state) ==
    LET base_color == IF attr.bright THEN 255 ELSE 136
        color == IF state THEN attr.ink ELSE attr.paper
    IN  CASE color = "Black"  -> <<0, 0, 0, 255>>
          [] color = "Blue"   -> <<0, 0, base_color, 255>>
          [] color = "Red"    -> <<base_color, 0, 0, 255>>
          [] color = "Purple" -> <<base_color, 0, base_color, 255>>
          [] color = "Green"  -> <<0, base_color, 0, 255>>
          [] color = "Cyan"   -> <<0, base_color, base_color, 255>>
          [] color = "Yellow" -> <<base_color, base_color, 0, 255>>
          [] color = "White"  -> <<base_color, base_color, base_color, 255>>

\* get_rgba with a black whose blue channel follows the brightness
get_rgba_bright_black(attr, state, flash_state) ==
    LET base_color == IF attr.bright THEN 255 ELSE 136
        color == IF state # (attr.flash /\ flash_state) THEN attr.ink ELSE attr.paper
    IN  CASE color = "Black"  -> <<0, 0, base_color - 136, 255>>
          [] color = "Blue"   -> <<0, 0, base_color, 255>>
          [] color = "Red"    -> <<base_color, 0, 0, 255>>
          [] color = "Purple" -> <<base_color, 0, base_color, 255>>
          [] color = "Green"  -> <<0, base_color, 0, 255>>
          [] color = "Cyan"   -> <<0, base_color, base_color, 255>>
          [] color = "Yellow" -> <<base_color, base_color, 0, 255>>
          [] color = "White"  -> <<base_color, base_color, base_color, 255>>

\* ZXPalette::get_rgba
get_rgba(attr, state, flash_state) ==
    LET base_color == IF attr.bright THEN 255 ELSE 136
        color == IF state # (attr.flash /\ flash_state) THEN attr.ink ELSE attr.paper
    IN  CASE color = "Black"  -> <<0, 0, 0, 255>>
          [] color = "Blue"   -> <<0, 0, base_color, 255>>
          [] color = "Red"    -> <<base_color, 0, 0, 255>>
          [] color = "Purple" -> <<base_color, 0, base_color, 255>>
          [] color = "Green"  -> <<0, base_color, 0, 255>>
          [] color = "Cyan"   -> <<0, base_color, base_color, 255>>
          [] color = "Yellow" -> <<base_color, base_color, 0, 255>>
          [] color = "White"  -> <<base_color, base_color, base_color, 255>>

----------------------------------------------------------------------------
(* Machine timing (super::machine::ZXMachine, z80::Clocks) *)

Machines == {"Sinclair48K", "Sinclair128K"}

\* ZXMachine::specs: the timing constants of a machine model
specs(m) ==
    IF m = "Sinclair48K"
    THEN [clocks_first_pixel |-> 14336, clocks_line |-> 224]
    ELSE [clocks_first_pixel |-> 14362, clocks_line |-> 228]

----------------------------------------------------------------------------
(* The observation window *)

\* frame position (x, y) as a pixel number of the row-major 320-wide frame
FramePos(x, y) == y * 320 + x

\* the 8 frame positions of block (line, col) of the canvas
BlockXY(line, col) == {<<32 + 8 * col + i, 24 + line>> : i \in 0..7}

WindowXY ==
    \* blocks of attribute cell (1, 2), the cell below it and the column beside it
    BlockXY(8, 2) \cup BlockXY(9, 2) \cup BlockXY(15, 2) \cup BlockXY(16, 2)
        \cup BlockXY(9, 3)
    \* the four corner blocks of the canvas
        \cup BlockXY(0, 0) \cup BlockXY(0, 31) \cup BlockXY(191, 0) \cup BlockXY(191, 31)
    \* border pixels around the canvas corners
        \cup {<<31, 24>>, <<32, 23>>, <<31, 23>>, <<288, 24>>, <<287, 23>>,
              <<31, 215>>, <<32, 216>>, <<288, 215>>, <<287, 216>>, <<288, 216>>}
    \* the 16x16 corner patch: its corners, and the pixels just outside it
        \cup {<<0, 0>>, <<15, 0>>, <<0, 15>>, <<15, 15>>, <<7, 9>>,
              <<16, 0>>, <<0, 16>>, <<16, 15>>, <<15, 16>>, <<16, 16>>}
    \* the far corners of the frame
        \cup {<<319, 0>>, <<0, 239>>, <<319, 239>>}
    \* the left border at frame row 32
        \cup {<<x, 32>> : x \in 24..31}

Window == {FramePos(xy[1], xy[2]) : xy \in WindowXY}

----------------------------------------------------------------------------
(* ZXScreen *)

\* the block base without the canvas' vertical offset
BlockBaseIndex_no_canvas_y(line, col) ==
    ((line * SCREEN_WIDTH + CANVAS_X + col * 8) * BYTES_PER_PIXEL) \div BYTES_PER_PIXEL

\* the block base with the canvas' two offsets exchanged
BlockBaseIndex_offsets_swapped(line, col) ==
    (((line + CANVAS_X) * SCREEN_WIDTH + CANVAS_Y + col * 8) * BYTES_PER_PIXEL)
        \div BYTES_PER_PIXEL

\* update_buffer_block: block_base_index / BYTES_PER_PIXEL
BlockBaseIndex(line, col) ==
    (((line + CANVAS_Y) * SCREEN_WIDTH + CANVAS_X + col * 8) * BYTES_PER_PIXEL)
        \div BYTES_PER_PIXEL

\* update_buffer_block: the colour written for `bit` of block (line, col)
BlockPixel(bm, at, fl, line, col, bit) ==
    LET data == bm[<<line, col>>]
        row == line \div 8
        block_attr == at[<<row, col>>]
        state == BitAnd(Shl8(data, bit), 128) # 0
    IN  get_rgba(block_attr, state, fl)

\* update_buffer_block(line, col) on buffer buf with grids bm, at and flash fl:
\* pixels block_base_index + bit, bit in 0..8, are overwritten
update_buffer_block(buf, bm, at, fl, line, col) ==
    LET base == BlockBaseIndex(line, col)
    IN  [p \in (base..(base + 7)) \cap DOMAIN buf |->
            BlockPixel(bm, at, fl, line, col, p - base)] @@ buf

\* the blocks of new_frame's loops that write pixel p
Covering ==
    [p \in Window |->
        {lc \in (0..(CANVAS_HEIGHT - 1)) \X (0..(ATTR_COLS - 1)) :
            p - BlockBaseIndex(lc[1], lc[2]) \in 0..7}]

\* the blocks (line, col) of the canvas with a pixel in the window
ObservedBlocks ==
    {<<xy[2] - 24, (xy[1] - 32) \div 8>> :
        xy \in {c \in WindowXY : c[1] \in 32..287 /\ c[2] \in 24..215}}

\* the cells of the bitmap and attribute grids the window observes
Cells == ObservedBlocks \cup UNION {Covering[p] : p \in Window}

AttrCells == {<<lc[1] \div 8, lc[2]>> : lc \in Cells}

\* the last block of S in the order of new_frame's loops (line, then col)
LastBlock(S) ==
    CHOOSE lc \in S : \A o \in S :
        o[1] < lc[1] \/ (o[1] = lc[1] /\ o[2] <= lc[2])

\* the block that writes pixel p last in new_frame's loops (<<>>: no block does)
LastCovering ==
    [p \in Window |-> IF Covering[p] = {} THEN <<>> ELSE LastBlock(Covering[p])]

\* new_frame's loops: update_buffer_block for every line and col in turn; a
\* pixel ends as the last block that covers it wrote it
redraw_all(buf, bm, at, fl) ==
    [p \in DOMAIN buf |->
        IF LastCovering[p] = <<>> THEN buf[p]
        ELSE LET line == LastCovering[p][1]
                 col == LastCovering[p][2]
             IN  BlockPixel(bm, at, fl, line, col, p - BlockBaseIndex(line, col))]

RECURSIVE update_lines(_, _, _, _, _, _, _)
\* write_attr_byte's loop: for line_shift in from..to { update_buffer_block }
update_lines(buf, bm, at, fl, from, to, col) ==
    IF from >= to THEN buf
    ELSE update_lines(update_buffer_block(buf, bm, at, fl, from, col),
                      bm, at, fl, from + 1, to, col)

\* ZXScreen::new(machine_type, palette_type)
ZXScreen_new(machine_type) ==
    /\ attributes = [c \in AttrCells |-> ZXAttribute_from_byte(0)]
    /\ bitmap = [c \in Cells |-> 0]
    /\ buffer = [p \in Window |-> <<0, 0, 0, 0>>]
    /\ machine = machine_type
    /\ flash = FALSE
    /\ frame_counter = 0
    /\ panic = "none"

Init ==
    /\ \E m \in Machines : ZXScreen_new(m)
    /\ fn = "none" /\ arg = 0 /\ ret = 0

\* a patch of 17 by 17 pixels
BorderPatch_17 == {y * SCREEN_WIDTH + x : y \in 0..16, x \in 0..16}

\* set_border's loops (for y in 0..16, for x in 0..16, upper ends excluded):
\* the pixels y * SCREEN_WIDTH + x
BorderPatch == {y * SCREEN_WIDTH + x : y \in 0..15, x \in 0..15}

\* a failed assert! ("assert") or array bounds check ("index"): the call
\* unwinds before it stored anything
Panic(kind) ==
    /\ panic' = kind
    /\ UNCHANGED <<attributes, bitmap, buffer, machine, flash, frame_counter>>

set_border(color, clocks) ==
    LET attr == ZXAttribute_from_byte(color)
        rgba == get_rgba(attr, TRUE, FALSE)
    IN  IF attr.ink = "panic" \/ attr.paper = "panic" THEN Panic("assert")
        ELSE /\ UNCHANGED <<attributes, bitmap, machine, flash, frame_counter, panic>>
             /\ buffer' = [p \in BorderPatch \cap DOMAIN buffer |-> rgba] @@ buffer

\* the flash phase switched on, not toggled, every 32 frames
flash_after_set(counter, fl) == IF counter % 32 = 0 THEN TRUE ELSE fl

\* new_frame: if self.frame_counter % 32 == 0 { self.flash = !self.flash; }
flash_after(counter, fl) == IF counter % 32 = 0 THEN ~fl ELSE fl

\* new_frame redrawing before the flash phase is advanced
new_frame_redraw_first ==
    /\ frame_counter' = frame_counter + 1
    /\ flash' = flash_after(frame_counter', flash)
    /\ UNCHANGED <<attributes, bitmap, machine, panic>>
    /\ buffer' = redraw_all(buffer, bitmap, attributes, flash)

new_frame ==
    /\ frame_counter' = frame_counter + 1
    /\ flash' = flash_after(frame_counter', flash)
    /\ UNCHANGED <<attributes, bitmap, machine, panic>>
    /\ buffer' = redraw_all(buffer, bitmap, attributes, flash')

\* the bitmap range with 0x5800 let in
bitmap_addr_ok_5800(addr) == addr >= 16384 /\ addr <= 22528

\* write_bitmap_byte: assert!(addr >= 0x4000 && addr <= 0x57FF)
bitmap_addr_ok(addr) == addr >= 16384 /\ addr <= 22527

\* block_time without the 2 clocks added to clocks_first_pixel
bitmap_block_time_no_offset(m, line, col) ==
    LET clocks_origin == specs(m).clocks_first_pixel
    IN  clocks_origin + line * specs(m).clocks_line + (col \div 2) * 8

\* write_bitmap_byte: block_time
bitmap_block_time(m, line, col) ==
    LET clocks_origin == specs(m).clocks_first_pixel + 2
    IN  clocks_origin + line * specs(m).clocks_line + (col \div 2) * 8

\* ZXScreen::write_bitmap_byte
write_bitmap_byte(addr, clocks, data) ==
    IF ~bitmap_addr_ok(addr) THEN Panic("assert")
    ELSE
    LET line == get_bitmap_line(addr)
        col == get_bitmap_col(addr)
    IN  \* self.bitmap[line][col] is bounds-checked
        IF ~(line < CANVAS_HEIGHT /\ col < ATTR_COLS) THEN Panic("index")
        ELSE
        LET bm == IF <<line, col>> \in DOMAIN bitmap
                  THEN [bitmap EXCEPT ![<<line, col>>] = data] ELSE bitmap
            block_time == bitmap_block_time(machine, line, col)
        IN  /\ bitmap' = bm
            /\ UNCHANGED <<attributes, machine, flash, frame_counter, panic>>
            /\ buffer' = IF clocks < block_time
                         THEN update_buffer_block(buffer, bm, attributes, flash, line, col)
                         ELSE buffer

\* write_attr_byte: assert!(addr >= 0x5800 && addr <= 0x5AFF)
attr_addr_ok(addr) == addr >= 22528 /\ addr <= 23295

\* write_attr_byte: beam_line
attr_beam_line(m, col, clocks) ==
    LET clocks_origin == specs(m).clocks_first_pixel + 2
    IN  IF clocks < clocks_origin + ((col \div 2) * 8) THEN 0
        ELSE ((clocks - (clocks_origin + ((col \div 2) * 8))) \div specs(m).clocks_line) + 1

\* block_time with the cell's start as the threshold until the beam is past
\* the cell
attr_block_time_two_way(m, row, col, beam_line) ==
    LET clocks_origin == specs(m).clocks_first_pixel + 2
        clocks_line == specs(m).clocks_line
    IN  IF beam_line < (row + 1) * 8
        THEN clocks_origin + (row * 8) * clocks_line + (col \div 2) * 8
        ELSE clocks_origin + ((row * 8) + 7) * clocks_line + (col \div 2) * 8

\* write_attr_byte: block_time
attr_block_time(m, row, col, beam_line) ==
    LET clocks_origin == specs(m).clocks_first_pixel + 2
        clocks_line == specs(m).clocks_line
    IN  IF beam_line <= row * 8
        THEN clocks_origin + (row * 8) * clocks_line + (col \div 2) * 8
        ELSE IF beam_line < (row + 1) * 8
        THEN clocks_origin + (row * 8 + (beam_line % 8)) * clocks_line + (col \div 2) * 8
        ELSE clocks_origin + ((row * 8) + 7) * clocks_line + (col \div 2) * 8

\* the redraw loop started at the cell's first line, wherever the beam is
attr_first_line_cell_start(row, beam_line) == row * 8

\* write_attr_byte: the first line of the redraw loop
attr_first_line(row, beam_line) == (beam_line % 8) + row * 8

write_attr_byte(addr, clocks, value) ==
    IF ~attr_addr_ok(addr) THEN Panic("assert")
    ELSE
    LET row == get_attr_row(addr)
        col == get_attr_col(addr)
        attr == ZXAttribute_from_byte(value)
    IN  IF attr.ink = "panic" \/ attr.paper = "panic" THEN Panic("assert")
        \* self.attributes[row][col] is bounds-checked
        ELSE IF ~(row < ATTR_ROWS /\ col < ATTR_COLS) THEN Panic("index")
        ELSE
        LET at == IF <<row, col>> \in DOMAIN attributes
                  THEN [attributes EXCEPT ![<<row, col>>] = attr] ELSE attributes
            beam_line == attr_beam_line(machine, col, clocks)
            block_time == attr_block_time(machine, row, col, beam_line)
        IN  /\ attributes' = at
            /\ UNCHANGED <<bitmap, machine, flash, frame_counter, panic>>
            /\ buffer' = IF clocks < block_time
                         THEN update_lines(buffer, bitmap, at, flash,
                                           attr_first_line(row, beam_line),
                                           (row + 1) * 8, col)
                         ELSE buffer

\* clone_texture: a shared view of the buffer
clone_texture == buffer

\* the length of the slice clone_texture returns, which is that of the array
\* buffer: [u8; PIXEL_COUNT * BYTES_PER_PIXEL]
clone_texture_len == PIXEL_COUNT * BYTES_PER_PIXEL


----------------------------------------------------------------------------
(* The CPU core's calls *)

\* the beam time of line `line` in block columns 2 and 3 on machine m
BeamTime(m, line) == specs(m).clocks_first_pixel + 2 + line * specs(m).clocks_line + 8

SetBorderOn(colors, clks) ==
    /\ panic = "none"
    /\ \E color \in colors, clocks \in clks : set_border(color, clocks)
    /\ UNCHANGED codec

NewFrameUpTo(frames) ==
    /\ panic = "none"
    /\ frame_counter < frames
    /\ new_frame
    /\ UNCHANGED codec

WriteBitmapByteOn(addrs, clks, datas) ==
    /\ panic = "none"
    /\ \E addr \in addrs, clocks \in clks, data \in datas :
           write_bitmap_byte(addr, clocks, data)
    /\ UNCHANGED codec

WriteAttrByteOn(addrs, clks, values) ==
    /\ panic = "none"
    /\ \E addr \in addrs, clocks \in clks, value \in values :
           write_attr_byte(addr, clocks, value)
    /\ UNCHANGED codec

CloneTexture ==
    /\ panic = "none"
    /\ clone_texture = buffer
    /\ UNCHANGED vars

----------------------------------------------------------------------------
(* Spec: the calls within a few frames, with clocks around the beam *)

MaxFrames == 2

\* 0x4122 is block (9, 2), 0x57FF is block (191, 31); 0x3FFF and 0x5800 are
\* the neighbours of the bitmap range
BitmapAddrs == {16674, 22527, 16383, 22528}

\* 0x5822 is cell (1, 2); 0x57FF and 0x5B00 are the neighbours of the range
AttrAddrs == {22562, 22527, 23296}

\* 0xB1
DataBytes == {177}

\* 0x47: bright, white ink on black; 0xA9: flash, blue ink on cyan
AttrBytes == {71, 169}

\* 0x07: white; 0xBA: red ink with paper and flash bits set
BorderBytes == {7, 186}

\* frame start, the beam at line 0, just before and at line 9, and the end of
\* the frame
ClockInputs(m) ==
    {0, BeamTime(m, 0), BeamTime(m, 9) - 1, BeamTime(m, 9), 69888}

SetBorder == SetBorderOn(BorderBytes, {0, 69888})

NewFrame == NewFrameUpTo(MaxFrames)

WriteBitmapByte == WriteBitmapByteOn(BitmapAddrs, ClockInputs(machine), DataBytes)

WriteAttrByte == WriteAttrByteOn(AttrAddrs, ClockInputs(machine), AttrBytes)

Next == SetBorder \/ NewFrame \/ WriteBitmapByte \/ WriteAttrByte \/ CloneTexture

Spec == Init /\ [][Next]_vars

----------------------------------------------------------------------------
(* SpecFlash: the calls over a full flash cycle *)

MaxFlashFrames == 65

\* 0x4122, block (9, 2)
FlashBitmapAddrs == {16674}

\* 0x5822, cell (1, 2)
FlashAttrAddrs == {22562}

\* 0xA9: flash, blue ink on cyan
FlashAttrBytes == {169}

\* 0x07, 0x47: white, bright white; 0xBA: red ink with paper and flash bits set
FlashBorderBytes == {7, 71, 186}

\* just before and at the beam time of line 9, and the end of the frame
FlashClockInputs(m) == {BeamTime(m, 9) - 1, BeamTime(m, 9), 69888}

FlashSetBorder == SetBorderOn(FlashBorderBytes, {0, 69888})

FlashNewFrame == NewFrameUpTo(MaxFlashFrames)

FlashWriteBitmapByte ==
    WriteBitmapByteOn(FlashBitmapAddrs, FlashClockInputs(machine), DataBytes)

FlashWriteAttrByte ==
    WriteAttrByteOn(FlashAttrAddrs, FlashClockInputs(machine), FlashAttrBytes)

NextFlash ==
    FlashSetBorder \/ FlashNewFrame \/ FlashWriteBitmapByte \/ FlashWriteAttrByte
        \/ CloneTexture

SpecFlash == Init /\ [][NextFlash]_vars

----------------------------------------------------------------------------
(* SpecScenario: writes to the first cell of both grids *)

ScenarioBitmapAddrs == {16384}

ScenarioAttrAddrs == {22528}

ScenarioDataBytes == {255}

ScenarioAttrBytes == {71, 7}

ScenarioBorderBytes == {7, 71}

\* the start and the end of the frame
ScenarioClockInputs == {0, 69888}

ScenarioSetBorder == SetBorderOn(ScenarioBorderBytes, ScenarioClockInputs)

ScenarioNewFrame == NewFrameUpTo(MaxFrames)

ScenarioWriteBitmapByte ==
    WriteBitmapByteOn(ScenarioBitmapAddrs, ScenarioClockInputs, ScenarioDataBytes)

ScenarioWriteAttrByte ==
    WriteAttrByteOn(ScenarioAttrAddrs, ScenarioClockInputs, ScenarioAttrBytes)

\* the caller takes the texture and looks at its length
ScenarioCloneTexture ==
    /\ panic = "none"
    /\ clone_texture = buffer
    /\ fn' = "clone_texture"
    /\ ret' = clone_texture_len
    /\ UNCHANGED <<arg, screen>>

NextScenario ==
    \/ ScenarioSetBorder \/ ScenarioNewFrame \/ ScenarioWriteBitmapByte
    \/ ScenarioWriteAttrByte \/ ScenarioCloneTexture

SpecScenario == Init /\ [][NextScenario]_vars

----------------------------------------------------------------------------
(* SpecThreshold: attribute writes to one cell with the beam before, inside
   and past it *)

ThresholdAttrAddrs == {22562}

ThresholdAttrBytes == {169, 71}

ThresholdBitmapAddrs == {16674}

ThresholdBorderBytes == {7}

\* frame start, the beam at line 0, just before and at line 9, just before and
\* at line 15, and the end of the frame
ThresholdClockInputs(m) ==
    {0, BeamTime(m, 0), BeamTime(m, 9) - 1, BeamTime(m, 9),
     BeamTime(m, 15) - 1, BeamTime(m, 15), 69888}

ThresholdSetBorder == SetBorderOn(ThresholdBorderBytes, {0})

ThresholdNewFrame == NewFrameUpTo(MaxFrames)

ThresholdWriteBitmapByte ==
    WriteBitmapByteOn(ThresholdBitmapAddrs, {0, 69888}, DataBytes)

ThresholdWriteAttrByte ==
    WriteAttrByteOn(ThresholdAttrAddrs, ThresholdClockInputs(machine), ThresholdAttrBytes)

NextThreshold ==
    \/ ThresholdSetBorder \/ ThresholdNewFrame \/ ThresholdWriteBitmapByte
    \/ ThresholdWriteAttrByte \/ CloneTexture

SpecThreshold == Init /\ [][NextThreshold]_vars

----------------------------------------------------------------------------
(* SpecPalette: the colour functions and the two calls that take an
   attribute byte, over every byte value *)

InitPalette ==
    /\ ZXScreen_new("Sinclair48K")
    /\ fn = "none" /\ arg \in 0..255 /\ ret = 0

FromBits ==
    /\ fn = "none"
    /\ fn' = "from_bits"
    /\ ret' = ZXColor_from_bits(arg)
    /\ UNCHANGED <<arg, screen>>

FromByte ==
    /\ fn = "none"
    /\ fn' = "from_byte"
    /\ ret' = ZXAttribute_from_byte(arg)
    /\ UNCHANGED <<arg, screen>>

GetRgba ==
    /\ fn = "none"
    /\ fn' = "get_rgba"
    /\ \E state \in BOOLEAN, flash_state \in BOOLEAN :
           ret' = [state |-> state, flash_state |-> flash_state,
                   rgba |-> get_rgba(ZXAttribute_from_byte(arg), state, flash_state)]
    /\ UNCHANGED <<arg, screen>>

PaletteWriteAttrByte ==
    /\ fn = "none" /\ panic = "none"
    /\ fn' = "write_attr_byte"
    /\ write_attr_byte(22528, 0, arg)
    /\ UNCHANGED <<arg, ret>>

PaletteSetBorder ==
    /\ fn = "none" /\ panic = "none"
    /\ fn' = "set_border"
    /\ set_border(arg, 0)
    /\ UNCHANGED <<arg, ret>>

NextPalette ==
    FromBits \/ FromByte \/ GetRgba \/ PaletteWriteAttrByte \/ PaletteSetBorder

SpecPalette == InitPalette /\ [][NextPalette]_vars

----------------------------------------------------------------------------
(* SpecCodec: the address codec applied to every line and display address *)

\* the pixel rows, and the addresses 0x4000..0x5AFF of the display file
CodecArgs == (0..(CANVAS_HEIGHT - 1)) \cup (16384..23295)

InitCodec ==
    /\ ZXScreen_new("Sinclair48K")
    /\ fn = "none" /\ arg \in CodecArgs /\ ret = 0

EncodeLine ==
    /\ fn = "none" /\ arg \in 0..(CANVAS_HEIGHT - 1)
    /\ fn' = "get_bitmap_line_addr"
    /\ ret' = get_bitmap_line_addr(arg)
    /\ UNCHANGED <<arg, screen>>

RoundTripLine ==
    /\ fn = "none" /\ arg \in 0..(CANVAS_HEIGHT - 1)
    /\ fn' = "round_trip"
    /\ ret' = get_bitmap_line(get_bitmap_line_addr(arg))
    /\ UNCHANGED <<arg, screen>>

DecodeBitmapAddr ==
    /\ fn = "none" /\ arg \in 16384..22527
    /\ fn' = "bitmap_decode"
    /\ ret' = <<get_bitmap_line(arg), get_bitmap_col(arg)>>
    /\ UNCHANGED <<arg, screen>>

DecodeAttrAddr ==
    /\ fn = "none" /\ arg \in 22528..23295
    /\ fn' = "attr_decode"
    /\ ret' = <<get_attr_row(arg), get_attr_col(arg)>>
    /\ UNCHANGED <<arg, screen>>

NextCodec == EncodeLine \/ RoundTripLine \/ DecodeBitmapAddr \/ DecodeAttrAddr

SpecCodec == InitCodec /\ [][NextCodec]_vars

----------------------------------------------------------------------------
(* Properties of the address codec, under SpecCodec *)

\* C8: for every row 0..191, get_bitmap_line(get_bitmap_line_addr(row)) = row,
\* and get_bitmap_line_addr(row) is 0x4000 with row bits 0-2 at address bits
\* 8-10, row bits 3-5 at address bits 5-7 and row bits 6-7 at address bits 11-12.
C8_LineRoundTrip ==
    /\ fn = "round_trip" => ret = arg
    /\ fn = "get_bitmap_line_addr" =>
           ret = 16384 + (arg % 8) * 256 + ((arg \div 8) % 8) * 32
                     + ((arg \div 64) % 4) * 2048

\* the last row of the canvas has gone through encode and decode
C8_Witness == fn = "round_trip" /\ arg = 191 /\ ret = 191

\* C9: every (line, column) decoded from an address in 0x4000..0x57FF lies in
\* 0..191 x 0..31, and every (row, column) decoded from an address in
\* 0x5800..0x5AFF lies in 0..23 x 0..31.
C9_DecodedInGrid ==
    /\ fn = "bitmap_decode" => ret[1] \in 0..191 /\ ret[2] \in 0..31
    /\ fn = "attr_decode" => ret[1] \in 0..23 /\ ret[2] \in 0..31

\* the last bitmap address decodes to the last block of the grid
C9_Witness == fn = "bitmap_decode" /\ arg = 22527 /\ ret = <<191, 31>>

----------------------------------------------------------------------------
(* Properties of the renderer *)

\* bit k of byte b
Bit(b, k) == (b \div 2^k) % 2 = 1

\* the clock at which the beam scans block (line, col) on machine m
BlockTime(m, line, col) ==
    specs(m).clocks_first_pixel + 2 + line * specs(m).clocks_line + (col \div 2) * 8

\* the 8 pixels of block (line, col) in buf are those of byte data drawn with
\* attribute attr in flash phase fl
BlockShows(buf, attr, data, fl, line, col) ==
    \A i \in 0..7 :
        buf[FramePos(32 + 8 * col + i, 24 + line)] = get_rgba(attr, Bit(data, 7 - i), fl)

\* the 8 pixels of block lc are the same in buffer and buffer'
BlockUnchanged(lc) ==
    \A i \in 0..7 :
        buffer'[FramePos(32 + 8 * lc[2] + i, 24 + lc[1])]
            = buffer[FramePos(32 + 8 * lc[2] + i, 24 + lc[1])]

\* C1: write_bitmap_byte(addr, clocks, data) on a valid address decoding to
\* (line, col): when clocks < BlockTime(line, col), the 8 pixels of the block
\* are, right after the call, those of data drawn with the cell's attribute in
\* the current flash phase; otherwise the whole buffer is as before the call.
C1_BitmapWrite ==
    [][\A addr \in FlashBitmapAddrs, clocks \in FlashClockInputs(machine),
          data \in DataBytes :
           write_bitmap_byte(addr, clocks, data) =>
               LET line == get_bitmap_line(addr)
                   col == get_bitmap_col(addr)
               IN  IF clocks < BlockTime(machine, line, col)
                   THEN BlockShows(buffer', attributes[<<line \div 8, col>>], data,
                                   flash, line, col)
                   ELSE buffer' = buffer]_vars

\* In the second flash phase block (9, 2) shows byte 0xB1 in the flashing
\* attribute 0xA9 while line 15 of the cell still shows the attribute the cell
\* had at the last new_frame: the attribute write was deferred, no frame has
\* passed since, so it is a bitmap write ahead of the beam that drew (9, 2).
C1_Witness ==
    /\ flash
    /\ bitmap[<<9, 2>>] = 177
    /\ attributes[<<1, 2>>] = ZXAttribute_from_byte(169)
    /\ BlockShows(buffer, attributes[<<1, 2>>], 177, TRUE, 9, 2)
    /\ buffer[FramePos(48, 33)] = <<0, 136, 136, 255>>
    /\ BlockShows(buffer, ZXAttribute_from_byte(0), 0, TRUE, 15, 2)

\* every observed block of the canvas shows its bitmap byte in its cell's
\* attribute and the current flash phase
CanvasConsistent ==
    \A lc \in ObservedBlocks :
        BlockShows(buffer, attributes[<<lc[1] \div 8, lc[2]>>], bitmap[lc], flash,
                   lc[1], lc[2])

\* C2: right after every new_frame, whatever calls came before it, every
\* canvas pixel (32 + 8 col + i, 24 + line) is the palette colour of
\* attributes[line div 8][col] and bit 7-i of bitmap[line][col] in the flash
\* phase after the tick.
C2_NewFrameConsistent ==
    [][frame_counter' # frame_counter => CanvasConsistent']_vars

\* Line 8 of cell (1, 2) shows the flashing attribute 0xA9 in the second flash
\* phase. No attribute write of this specification redraws line 8 (the beam is
\* at line 9 or later), so a new_frame caught up on the deferred write.
C2_Witness ==
    /\ flash
    /\ attributes[<<1, 2>>] = ZXAttribute_from_byte(169)
    /\ bitmap[<<9, 2>>] = 177
    /\ buffer[FramePos(48, 32)] = <<0, 0, 136, 255>>
    /\ CanvasConsistent

\* C3: after write_attr_byte(addr, clocks, value) on a valid address decoding
\* to (row, col), every pixel row L of the cell the beam has not reached
\* (clocks < BlockTime(L, col)) is redrawn with the new attribute; when the
\* beam has not reached the cell's first row, all 8 rows show it.
C3_AttrWriteRedrawsUnscanned ==
    [][\A addr \in AttrAddrs \cap (22528..23295), clocks \in ClockInputs(machine),
          value \in AttrBytes :
           write_attr_byte(addr, clocks, value) =>
               LET row == get_attr_row(addr)
                   col == get_attr_col(addr)
               IN  \A L \in (row * 8)..(row * 8 + 7) :
                       (<<L, col>> \in ObservedBlocks /\ clocks < BlockTime(machine, L, col))
                           => BlockShows(buffer', ZXAttribute_from_byte(value),
                                         bitmap[<<L, col>>], flash, L, col)]_vars

\* C4: a bitmap or attribute write at clock c changes no pixel of a block
\* (line, col) the beam has passed (BlockTime(line, col) <= c); so within a
\* frame of writes with non-decreasing clocks, a block left stale by a deferred
\* write keeps its pixels through every later write, until new_frame.
\* Stated per block: a step that changes a block's pixels is no write call
\* with a clock at or after the block's beam time.
C4_PassedBlocksKept ==
    [][\A lc \in ObservedBlocks :
           \/ BlockUnchanged(lc)
           \/ \A clocks \in ClockInputs(machine) :
                  BlockTime(machine, lc[1], lc[2]) <= clocks =>
                      /\ \A addr \in BitmapAddrs, data \in DataBytes :
                             ~write_bitmap_byte(addr, clocks, data)
                      /\ \A addr \in AttrAddrs, value \in AttrBytes :
                             ~write_attr_byte(addr, clocks, value)]_vars

\* Before any new_frame, cell (1, 2) holds attribute 0xA9 and byte 0xB1: lines
\* 8 and 9, which the beam had passed, still show the pixels of construction,
\* and line 15, ahead of the beam, shows the new attribute.
C4_Witness ==
    /\ frame_counter = 0
    /\ attributes[<<1, 2>>] = ZXAttribute_from_byte(169)
    /\ bitmap[<<9, 2>>] = 177
    /\ buffer[FramePos(48, 32)] = <<0, 0, 0, 0>>
    /\ buffer[FramePos(48, 33)] = <<0, 0, 0, 0>>
    /\ BlockShows(buffer, attributes[<<1, 2>>], 0, FALSE, 15, 2)

\* C5: the flash phase toggles once every 32 calls of new_frame: after n calls
\* on a fresh screen it is true iff n div 32 is odd. frame_counter counts the
\* calls: it starts at 0, new_frame adds 1, and write_bitmap_byte,
\* write_attr_byte, set_border and clone_texture change neither it nor flash.
C5_FlashEvery32 ==
    /\ [](flash <=> (frame_counter \div 32) % 2 = 1)
    /\ [][\/ UNCHANGED <<flash, frame_counter>>
          \/ /\ new_frame
             /\ frame_counter' = frame_counter + 1
             /\ \A clocks \in FlashClockInputs(machine) \cup {0} :
                    /\ \A addr \in FlashBitmapAddrs, data \in DataBytes :
                           ~write_bitmap_byte(addr, clocks, data)
                    /\ \A addr \in FlashAttrAddrs, value \in FlashAttrBytes :
                           ~write_attr_byte(addr, clocks, value)
                    /\ \A color \in FlashBorderBytes : ~set_border(color, clocks)
             /\ ~(clone_texture = buffer /\ UNCHANGED vars)]_vars

\* After 64 frames with writes in between the flash phase is off again.
C5_Witness ==
    /\ frame_counter = 64
    /\ ~flash
    /\ bitmap[<<9, 2>>] = 177
    /\ attributes[<<1, 2>>] = ZXAttribute_from_byte(169)
    /\ buffer[FramePos(0, 0)] # <<0, 0, 0, 0>>

\* the canvas rectangle of the frame: x in 32..287, y in 24..215
InCanvas(p) == (p % 320) \in 32..287 /\ (p \div 320) \in 24..215

\* C6: write_bitmap_byte, write_attr_byte and new_frame never change a buffer
\* pixel outside the canvas rectangle, and set_border never changes a pixel
\* inside it: a step that changes a pixel of the border is none of the first
\* three, a step that changes a pixel of the canvas is no set_border.
C6_BorderCanvasDisjoint ==
    [][\A p \in Window :
           \/ buffer'[p] = buffer[p]
           \/ /\ InCanvas(p)
              /\ \A color \in BorderBytes, clocks \in {0, 69888} : ~set_border(color, clocks)
           \/ /\ ~InCanvas(p)
              /\ ~new_frame
              /\ \A clocks \in ClockInputs(machine) :
                     /\ \A addr \in BitmapAddrs, data \in DataBytes :
                            ~write_bitmap_byte(addr, clocks, data)
                     /\ \A addr \in AttrAddrs, value \in AttrBytes :
                            ~write_attr_byte(addr, clocks, value)]_vars

\* The corner patch and the canvas are both painted, and the border pixels
\* next to the patch and next to the canvas still hold their initial value.
C6_Witness ==
    /\ frame_counter = 1
    /\ bitmap[<<9, 2>>] = 177
    /\ buffer[FramePos(0, 0)] = <<136, 0, 0, 255>>
    /\ buffer[FramePos(32, 24)] = <<0, 0, 0, 255>>
    /\ buffer[FramePos(287, 215)] = <<0, 0, 0, 255>>
    /\ \A xy \in {<<16, 0>>, <<0, 16>>, <<31, 24>>, <<32, 23>>, <<288, 215>>, <<287, 216>>} :
           buffer[FramePos(xy[1], xy[2])] = <<0, 0, 0, 0>>

\* C7: write_bitmap_byte with an address outside 0x4000..0x57FF and
\* write_attr_byte with an address outside 0x5800..0x5AFF end in the assertion
\* failure and leave both grids, the buffer, the flash phase and the frame
\* counter as they were; with an address inside the range the call does not
\* fail. Every step either does not fail and is no write to an invalid
\* address, or is an assertion failure that changes nothing else and is no
\* write to a valid address.
C7_InvalidAddressAsserts ==
    [][\/ /\ panic' = "none"
          /\ \A clocks \in ClockInputs(machine) :
                 /\ \A addr \in BitmapAddrs \ (16384..22527), data \in DataBytes :
                        ~write_bitmap_byte(addr, clocks, data)
                 /\ \A addr \in AttrAddrs \ (22528..23295), value \in AttrBytes :
                        ~write_attr_byte(addr, clocks, value)
       \/ /\ panic' = "assert"
          /\ UNCHANGED <<bitmap, attributes, buffer, flash, frame_counter>>
          /\ \A clocks \in ClockInputs(machine) :
                 /\ \A addr \in BitmapAddrs \cap (16384..22527), data \in DataBytes :
                        ~write_bitmap_byte(addr, clocks, data)
                 /\ \A addr \in AttrAddrs \cap (22528..23295), value \in AttrBytes :
                        ~write_attr_byte(addr, clocks, value)]_vars

\* A write to an invalid address has failed after writes to valid addresses
\* had been stored and a frame had been drawn.
C7_Witness ==
    /\ panic = "assert"
    /\ frame_counter = 1
    /\ bitmap[<<9, 2>>] = 177
    /\ attributes[<<1, 2>>] = ZXAttribute_from_byte(71)
    /\ BlockShows(buffer, attributes[<<1, 2>>], 177, FALSE, 9, 2)

\* C10: set_border(color, clocks) sets every pixel of the patch x in 0..15,
\* y in 0..15 to get_rgba(from_byte(color), true, false) and changes no other
\* pixel; the colour is that of the byte with only its ink bits (0-2) and its
\* bright bit (6) kept, whatever the clock and the flash phase; 0x47 gives
\* (255,255,255,255) and 0x07 gives (136,136,136,255).
C10_SetBorderPatch ==
    [][\A color \in FlashBorderBytes, clocks \in {0, 69888} :
           set_border(color, clocks) =>
               \A p \in Window :
                   IF (p % 320) \in 0..15 /\ (p \div 320) \in 0..15
                   THEN /\ buffer'[p] = get_rgba(ZXAttribute_from_byte(color), TRUE, FALSE)
                        /\ buffer'[p] = get_rgba(ZXAttribute_from_byte(BitAnd(color, 71)), TRUE, FALSE)
                        /\ color = 71 => buffer'[p] = <<255, 255, 255, 255>>
                        /\ color = 7 => buffer'[p] = <<136, 136, 136, 255>>
                   ELSE buffer'[p] = buffer[p]]_vars

\* The patch is bright white while the flash phase is on, and the pixels
\* right of it and below it were never painted.
C10_Witness ==
    /\ flash
    /\ \A xy \in {<<0, 0>>, <<15, 0>>, <<0, 15>>, <<15, 15>>, <<7, 9>>} :
           buffer[FramePos(xy[1], xy[2])] = <<255, 255, 255, 255>>
    /\ \A xy \in {<<16, 0>>, <<0, 16>>, <<16, 15>>, <<15, 16>>, <<16, 16>>} :
           buffer[FramePos(xy[1], xy[2])] = <<0, 0, 0, 0>>

\* the state of the scenario before its new_frame: a renderer that drew no
\* frame yet, with 0x47 stored by write_attr_byte(0x5800, ...) and 0xFF by
\* write_bitmap_byte(0x4000, ...)
ScenarioWritten ==
    /\ frame_counter = 0
    /\ attributes[<<0, 0>>] = ZXAttribute_from_byte(71)
    /\ bitmap[<<0, 0>>] = 255

\* C11 as stated: after write_attr_byte(0x5800, 0, 0x47),
\* write_bitmap_byte(0x4000, 0, 0xFF) and new_frame on a fresh renderer the
\* frame pixels x in 24..31, y = 32 are all (255,255,255,255).
C11_ScenarioAsStated ==
    [][ScenarioWritten /\ new_frame =>
           \A x \in 24..31 : buffer'[FramePos(x, 32)] = <<255, 255, 255, 255>>]_vars

\* C11 amended: after the same calls the pixels of canvas row 0, block
\* column 0, which are the frame pixels x in 32..39, y = 24, are all
\* (255,255,255,255), and the frame pixels x in 24..31, y = 32 belong to the
\* border and are left as they were.
C11_Scenario ==
    [][ScenarioWritten /\ new_frame =>
           /\ \A x \in 32..39 : buffer'[FramePos(x, 24)] = <<255, 255, 255, 255>>
           /\ \A x \in 24..31 : buffer'[FramePos(x, 32)] = buffer[FramePos(x, 32)]]_vars

\* The scenario has run: the first frame is drawn with both bytes stored.
C11_Witness ==
    /\ frame_counter = 1
    /\ attributes[<<0, 0>>] = ZXAttribute_from_byte(71)
    /\ bitmap[<<0, 0>>] = 255
    /\ \A x \in 32..39 : buffer[FramePos(x, 24)] = <<255, 255, 255, 255>>
    /\ \A x \in 24..31 : buffer[FramePos(x, 32)] = <<0, 0, 0, 0>>

\* the colour of a 3-bit code, and the code's RGBA value: bit 0 is blue, bit 1
\* red, bit 2 green, each at 0xFF when bright and at 0x88 otherwise
ColourOfCode ==
    <<"Black", "Blue", "Red", "Purple", "Green", "Cyan", "Yellow", "White">>

Rgba(code, bright) ==
    LET base == IF bright THEN 255 ELSE 136
    IN  <<base * ((code \div 2) % 2), base * ((code \div 4) % 2), base * (code % 2), 255>>

\* C12: get_rgba of an attribute with state true equals get_rgba of the
\* attribute with ink and paper exchanged with state false, in the same flash
\* phase; and get_rgba takes the ink exactly when state XOR (flash AND flash
\* phase) is true, the paper otherwise.
C12_InkPaperSwap ==
    fn = "get_rgba" =>
        LET a == ZXAttribute_from_byte(arg)
            swapped == [a EXCEPT !.ink = a.paper, !.paper = a.ink]
            ink_selected == ret.state # (Bit(arg, 7) /\ ret.flash_state)
        IN  /\ ret.rgba = get_rgba(swapped, ~ret.state, ret.flash_state)
            /\ ret.rgba = Rgba(IF ink_selected THEN arg % 8 ELSE (arg \div 8) % 8,
                               Bit(arg, 6))

\* A flashing blue-on-cyan attribute in the flash phase shows a set pixel in
\* its paper colour.
C12_Witness ==
    /\ fn = "get_rgba" /\ arg = 169
    /\ ret = [state |-> TRUE, flash_state |-> TRUE, rgba |-> <<0, 136, 136, 255>>]

\* the palette: seven colours at two intensities, and black
Palette15 == {Rgba(code, bright) : code \in 1..7, bright \in BOOLEAN} \cup {<<0, 0, 0, 255>>}

\* every value get_rgba takes: all attribute bytes, both states, both phases
RgbaRange ==
    {get_rgba(ZXAttribute_from_byte(b), st, fl) :
         b \in 0..255, st \in BOOLEAN, fl \in BOOLEAN}

\* C13: get_rgba of an attribute with black ink and black paper is
\* (0,0,0,255) for every bright, flash, state and flash phase; over all 256
\* attribute bytes, both states and both phases get_rgba takes exactly 15
\* values, the palette above, each with alpha 0xFF.
C13_FifteenColours ==
    /\ Cardinality(Palette15) = 15
    /\ RgbaRange = Palette15
    /\ fn = "get_rgba" =>
           /\ ret.rgba \in Palette15
           /\ ret.rgba[4] = 255
           /\ arg % 64 = 0 => ret.rgba = <<0, 0, 0, 255>>

\* Black on black, bright and flashing, in the flash phase.
C13_Witness ==
    /\ fn = "get_rgba" /\ arg = 192
    /\ ret = [state |-> TRUE, flash_state |-> TRUE, rgba |-> <<0, 0, 0, 255>>]

\* the attribute a byte stands for: ink bits 0-2, paper bits 3-5, bright
\* bit 6, flash bit 7
Decoded(byte) ==
    [ink    |-> ColourOfCode[(byte % 8) + 1],
     paper  |-> ColourOfCode[((byte \div 8) % 8) + 1],
     flash  |-> Bit(byte, 7),
     bright |-> Bit(byte, 6)]

\* C14: from_byte decodes every byte without failing; from_bits fails for
\* every code above 7 and for no other; write_attr_byte and set_border do not
\* fail for any value byte.
C14_FromByteTotal ==
    /\ panic = "none"
    /\ fn = "from_byte" => ret = Decoded(arg)
    /\ fn = "from_bits" => ret = IF arg > 7 THEN "panic" ELSE ColourOfCode[arg + 1]
    /\ fn = "write_attr_byte" => attributes[<<0, 0>>] = Decoded(arg)
    /\ fn = "set_border" => buffer[FramePos(0, 0)] = Rgba(arg % 8, Bit(arg, 6))

\* write_attr_byte has stored the attribute of byte 0xFF.
C14_Witness ==
    /\ fn = "write_attr_byte" /\ arg = 255 /\ panic = "none"
    /\ attributes[<<0, 0>>] =
           [ink |-> "White", paper |-> "White", flash |-> TRUE, bright |-> TRUE]

\* C15: in every reachable state the buffer clone_texture returns is
\* 320 * 240 * 4 = 307200 bytes long: every observed pixel is 4 bytes that lie
\* inside that length, and the length the caller gets is 307200; a
\* clone_texture call changes no part of the renderer state.
C15_TextureLength ==
    /\ [](/\ DOMAIN buffer = Window
          /\ \A p \in Window : Len(buffer[p]) = 4 /\ p * 4 + 3 < 307200
          /\ fn = "clone_texture" => ret = 320 * 240 * 4 /\ ret = 307200)
    /\ [][fn' # fn => fn' = "clone_texture" /\ UNCHANGED screen]_vars

\* The texture was taken after writes, a border change and a frame.
C15_Witness ==
    /\ fn = "clone_texture" /\ ret = 307200
    /\ frame_counter = 1
    /\ bitmap[<<0, 0>>] = 255
    /\ buffer[FramePos(0, 0)] = <<255, 255, 255, 255>>
    /\ buffer[FramePos(319, 239)] = <<0, 0, 0, 0>>

\* the bitmap cell and the attribute cell a valid address stands for
BitmapCellOf ==
    [addr \in FlashBitmapAddrs \cap (16384..22527) |->
        CHOOSE lc \in (0..191) \X (0..31) : get_bitmap_line_addr(lc[1]) + lc[2] = addr]

AttrCellOf ==
    [addr \in FlashAttrAddrs \cap (22528..23295) |->
        CHOOSE rc \in (0..23) \X (0..31) : 22528 + 32 * rc[1] + rc[2] = addr]

\* the observed pixels outside the block, and outside the 8 blocks of the
\* cell, a valid address stands for
OutsideBlockOf ==
    [addr \in DOMAIN BitmapCellOf |->
        Window \ {FramePos(xy[1], xy[2]) :
                      xy \in BlockXY(BitmapCellOf[addr][1], BitmapCellOf[addr][2])}]

OutsideCellOf ==
    [addr \in DOMAIN AttrCellOf |->
        Window \ {FramePos(xy[1], xy[2]) :
                      xy \in UNION {BlockXY(AttrCellOf[addr][1] * 8 + i, AttrCellOf[addr][2]) :
                                        i \in 0..7}}]

\* what a write_bitmap_byte(addr, ., data) step may change: the byte of cell
\* (line, col) becomes data, and only pixels of block (line, col) may differ
BitmapStoreLocal(addr, data) ==
    LET lc == BitmapCellOf[addr]
    IN  /\ attributes' = attributes
        /\ bitmap' = [bitmap EXCEPT ![lc] = data]
        /\ \A p \in OutsideBlockOf[addr] : buffer'[p] = buffer[p]

\* what a write_attr_byte(addr, ., value) step may change: the attribute of
\* cell (row, col) becomes the decoded value, and only pixels of the 8 blocks
\* of the cell may differ
AttrStoreLocal(addr, value) ==
    LET rc == AttrCellOf[addr]
    IN  /\ bitmap' = bitmap
        /\ attributes' = [attributes EXCEPT ![rc] = Decoded(value)]
        /\ \A p \in OutsideCellOf[addr] : buffer'[p] = buffer[p]

\* C16: write_bitmap_byte with a valid address stores data in bitmap[line][col]
\* whether or not the redraw is deferred and changes no other bitmap cell, no
\* attribute and no pixel outside block (line, col); write_attr_byte with a
\* valid address stores the decoded value in attributes[row][col] and changes
\* no other attribute, no bitmap cell and no pixel outside the cell;
\* new_frame and set_border change neither grid.
C16_GridStoreLocal ==
    [][/\ \A addr \in FlashBitmapAddrs \cap (16384..22527), data \in DataBytes :
              \/ BitmapStoreLocal(addr, data)
              \/ \A clocks \in FlashClockInputs(machine) :
                     ~write_bitmap_byte(addr, clocks, data)
       /\ \A addr \in FlashAttrAddrs \cap (22528..23295), value \in FlashAttrBytes :
              \/ AttrStoreLocal(addr, value)
              \/ \A clocks \in FlashClockInputs(machine) :
                     ~write_attr_byte(addr, clocks, value)
       /\ \/ UNCHANGED <<bitmap, attributes>>
          \/ /\ ~new_frame
             /\ \A color \in FlashBorderBytes, clocks \in {0, 69888} :
                    ~set_border(color, clocks)]_vars

\* Both grids hold bytes whose redraw was deferred: no frame was drawn and the
\* pixels of the written block and of the written cell are still the initial
\* ones.
C16_Witness ==
    /\ frame_counter = 0
    /\ bitmap[<<9, 2>>] = 177
    /\ attributes[<<1, 2>>] = Decoded(169)
    /\ \A line \in {8, 9, 15} :
           \A xy \in BlockXY(line, 2) : buffer[FramePos(xy[1], xy[2])] = <<0, 0, 0, 0>>

\* C17: address decoding is a bijection onto the grids. Every bitmap address
\* in 0x4000..0x57FF decodes to a cell of 0..191 x 0..31 from which
\* get_bitmap_line_addr(line) + col gives the address back, and every attribute
\* address in 0x5800..0x5AFF decodes to a cell of 0..23 x 0..31 from which
\* 0x5800 + 32 * row + col gives it back; as each range has as many addresses
\* as its grid has cells, no two addresses share a cell and every cell is hit.
C17_DecodeBijection ==
    /\ Cardinality(16384..22527) = Cardinality((0..191) \X (0..31))
    /\ Cardinality(22528..23295) = Cardinality((0..23) \X (0..31))
    /\ fn = "bitmap_decode" =>
           /\ arg \in 16384..22527
           /\ ret \in (0..191) \X (0..31)
           /\ get_bitmap_line_addr(ret[1]) + ret[2] = arg
    /\ fn = "attr_decode" =>
           /\ arg \in 22528..23295
           /\ ret \in (0..23) \X (0..31)
           /\ 22528 + 32 * ret[1] + ret[2] = arg

\* The last attribute address decodes to the last cell of the grid.
C17_Witness == fn = "attr_decode" /\ arg = 23295 /\ ret = <<23, 31>>

\* the beam line of the spec: 0 before the column's origin, else
\* (clock - origin) div clocksLine + 1
BeamLine(m, col, clocks) ==
    LET origin == BlockTime(m, 0, col)
    IN  IF clocks < origin THEN 0 ELSE ((clocks - origin) \div specs(m).clocks_line) + 1

\* C18: write_attr_byte redraws iff the beam line is before or inside the
\* cell (beamLine < (row + 1) * 8): then the pixel rows from
\* (beamLine mod 8) + row * 8 to (row + 1) * 8 - 1 show the new attribute and
\* every other pixel is unchanged; with the beam past the cell the buffer is
\* left entirely unchanged.
C18_AttrThreshold ==
    [][\A addr \in ThresholdAttrAddrs, clocks \in ThresholdClockInputs(machine),
          value \in ThresholdAttrBytes :
           write_attr_byte(addr, clocks, value) =>
               LET row == (addr - 22528) \div 32
                   col == (addr - 22528) % 32
                   beamLine == BeamLine(machine, col, clocks)
                   first == (beamLine % 8) + row * 8
               IN  IF beamLine < (row + 1) * 8
                   THEN \A lc \in ObservedBlocks :
                            IF lc[2] = col /\ lc[1] \in first..((row + 1) * 8 - 1)
                            THEN BlockShows(buffer', Decoded(value), bitmap[lc], flash,
                                            lc[1], lc[2])
                            ELSE BlockUnchanged(lc)
                   ELSE buffer' = buffer]_vars

\* An attribute written with the beam inside the cell, on its third line:
\* line 9 of the cell keeps the pixels of the last frame, line 15 shows the
\* new attribute.
C18_Witness ==
    /\ frame_counter = 1
    /\ attributes[<<1, 2>>] = Decoded(169)
    /\ bitmap[<<9, 2>>] = 177
    /\ BlockShows(buffer, Decoded(0), 177, FALSE, 9, 2)
    /\ BlockShows(buffer, Decoded(169), 0, FALSE, 15, 2)
    /\ buffer[FramePos(48, 39)] = <<0, 136, 136, 255>>

====
